---- MODULE Spec2Model ----
(***************************************************************************)
(* PackedMessage<MessageType> (psmovedataframe/PackedMessage.h): packing   *)
(* of a message into a buffer that carries a 4-byte big-endian length      *)
(* header followed by the serialized body, and the matching unpacking.     *)
(*                                                                         *)
(* The codec's only field is m_msg, a shared handle to one message.  The   *)
(* messages themselves live in `heap`; `buf` is the caller's byte buffer   *)
(* (a std::vector<uint8_t>; the pointer forms are called on buf.data()     *)
(* with a buf_size not larger than buf.size()).  `last` records the most   *)
(* recent call and what it returned; `crashed` records that a call         *)
(* dereferenced a null handle or read outside the buffer and aborted.      *)
(***************************************************************************)
EXTENDS Integers, Sequences, FiniteSets, TLC

VARIABLES m_msg, heap, buf, bufSrc, last, crashed

vars == <<m_msg, heap, buf, bufSrc, last, crashed>>

(* ------------------------------ bounds --------------------------------- *)

\* largest number of fields a caller puts into a message
MaxFields == 2

\* bytes of capacity the caller's buffer may have beyond the largest frame
MaxSlack == 1

\* longest byte sequence handed to decode_header in SpecDecode
MaxDecodeLen == 5

(* ----------------------------- constants ------------------------------- *)

HEADER_SIZE == 4

(* Machine words are kept as little-endian sequences of 16-bit limbs, so   *)
(* that `unsigned` (2 limbs) and size_t (4 limbs) keep their width.        *)
Limb == 2 ^ 16

\* the k-limb two's complement word of the integer n (n mod 2^(16k))
RECURSIVE Wrap(_, _)
Wrap(n, k) == IF k = 0 THEN <<>> ELSE <<n % Limb>> \o Wrap(n \div Limb, k - 1)

\* conversion to `unsigned`
Unsigned(n) == Wrap(n, 2)

\* conversion to size_t
SizeT(n) == Wrap(n, 4)

\* w > 0 for an unsigned word
Positive(w) == \E i \in 1..Len(w) : w[i] # 0

NULL == "null"

Handles == {"h1", "h2"}

MaxBuf == HEADER_SIZE + MaxFields + MaxSlack

\* conversion of an unsigned / size_t word to int (the low 32 bits, two's
\* complement), as for the size parameter of ParseFromArray
ToInt(w) ==
    IF w[2] >= Limb \div 2 THEN (w[2] - Limb) * Limb + w[1] ELSE w[2] * Limb + w[1]

\* w * 256 + byte in `unsigned` arithmetic
Mul256Add(w, byte) ==
    LET lo == w[1] * 256 + byte
    IN  <<lo % Limb, (w[2] * 256 + lo \div Limb) % Limb>>

(* --------------------- the MessageType collaborator -------------------- *)
(* A message is a sequence of field values.  A field value in 0..62 is     *)
(* written as the one byte 2*v+1; any other value cannot be serialized.    *)
(* On the wire a byte is a field iff it is odd and below 128; every other  *)
(* byte (0, a stale 0xFF, ...) makes the parser fail.                      *)

\* the values a caller stores in a message: one that serializes, one that
\* the serializer rejects
FieldVals == {0, 99}

Encodable(v) == v \in 0..62

EncodeField(v) == 2 * v + 1

DecodeOk(b) == b % 2 = 1 /\ b < 128

DecodeField(b) == (b - 1) \div 2

RECURSIVE SeqsUpTo(_, _)
SeqsUpTo(S, n) ==
    IF n = 0 THEN {<<>>}
    ELSE LET shorter == SeqsUpTo(S, n - 1)
         IN  shorter \cup {Append(s, x) : s \in {t \in shorter : Len(t) = n - 1}, x \in S}

\* the messages a caller builds: fields that serialize, the last of which
\* may be one that does not
Payloads ==
    {p \in SeqsUpTo(FieldVals, MaxFields) : \A i \in 1..(Len(p) - 1) : Encodable(p[i])}

\* MessageType::ByteSize()
ByteSize(msg) == Len(msg)

\* MessageType::Clear()
Clear(msg) == <<>>

\* bytes the serializer produces before it meets a field it cannot write
RECURSIVE EncodedPrefix(_)
EncodedPrefix(msg) ==
    IF msg = <<>> \/ ~Encodable(Head(msg)) THEN <<>>
    ELSE <<EncodeField(Head(msg))>> \o EncodedPrefix(Tail(msg))

\* MessageType::SerializeToArray(data, size): the bytes written at data and
\* the return value
SerializeToArray(msg, size) ==
    LET out == EncodedPrefix(msg)
    IN  IF Len(msg) > size THEN [ret |-> FALSE, bytes |-> <<>>]
        ELSE [ret |-> Len(out) = Len(msg), bytes |-> out]

\* MessageType::ParseFromArray(data, size), data being the `size` bytes at
\* the pointer: fields are added to msg until a byte is rejected
RECURSIVE ParseFromArray(_, _)
ParseFromArray(msg, data) ==
    IF data = <<>> THEN [ret |-> TRUE, msg |-> msg]
    ELSE IF ~DecodeOk(Head(data)) THEN [ret |-> FALSE, msg |-> msg]
    ELSE ParseFromArray(Append(msg, DecodeField(Head(data))), Tail(data))

(* ------------------------------ the codec ------------------------------ *)

\* set_msg(msg): the new value of m_msg
set_msg(msg) == msg

\* get_msg() returning an empty handle instead of m_msg
get_msg_empty(m) == NULL

\* get_msg(): the handle returned
get_msg(m) == m

\* std::vector::resize(n): truncates, or appends value-initialised bytes
resize(b, n) == [i \in 1..n |-> IF i <= Len(b) THEN b[i] ELSE 0]

\* pack into the fixed buffer without the memset
memset_skipped(b, n) == b

\* memset(buf, 0, n) on the first n bytes of b
memset0(b, n) == [i \in 1..Len(b) |-> IF i <= n THEN 0 ELSE b[i]]

\* the bytes `bytes` stored at b[off], b[off+1], ... (0-based off)
WriteAt(b, off, bytes) ==
    [i \in 1..Len(b) |->
        IF i > off /\ i <= off + Len(bytes) THEN bytes[i - off] ELSE b[i]]

\* encode_header writing the least significant byte first
encode_header_le(b, value) ==
    [i \in 1..Len(b) |->
        IF i = 1 THEN value[1] % 256
        ELSE IF i = 2 THEN (value[1] \div 256) % 256
        ELSE IF i = 3 THEN value[2] % 256
        ELSE IF i = 4 THEN (value[2] \div 256) % 256
        ELSE b[i]]

\* encode_header(data_buffer&, unsigned)
encode_header(b, value) ==
    [i \in 1..Len(b) |->
        IF i = 1 THEN (value[2] \div 256) % 256
        ELSE IF i = 2 THEN value[2] % 256
        ELSE IF i = 3 THEN (value[1] \div 256) % 256
        ELSE IF i = 4 THEN value[1] % 256
        ELSE b[i]]

\* the pointer form of encode_header writing the least significant byte first
encode_header_array_le(b, buf_size, value) ==
    [i \in 1..Len(b) |->
        IF i = 1 THEN value[1] % 256
        ELSE IF i = 2 THEN (value[1] \div 256) % 256
        ELSE IF i = 3 THEN value[2] % 256
        ELSE IF i = 4 THEN (value[2] \div 256) % 256
        ELSE b[i]]

\* encode_header(uint8_t*, unsigned buf_size, unsigned)
encode_header_array(b, buf_size, value) ==
    [i \in 1..Len(b) |->
        IF i = 1 THEN (value[2] \div 256) % 256
        ELSE IF i = 2 THEN value[2] % 256
        ELSE IF i = 3 THEN (value[1] \div 256) % 256
        ELSE IF i = 4 THEN value[1] % 256
        ELSE b[i]]

\* pack(data_buffer&) emptying the buffer before it tests m_msg
pack_clears_first(m, hp, b) ==
    IF m = NULL THEN [ret |-> FALSE, buf |-> <<>>]
    ELSE LET msg_size == Unsigned(ByteSize(hp[m]))
             hdr == encode_header(resize(<<>>, ToInt(Unsigned(HEADER_SIZE + ToInt(msg_size)))),
                                  msg_size)
         IN  IF Positive(msg_size)
             THEN LET s == SerializeToArray(hp[m], ToInt(msg_size))
                  IN  [ret |-> s.ret, buf |-> WriteAt(hdr, HEADER_SIZE, s.bytes)]
             ELSE [ret |-> TRUE, buf |-> hdr]

\* pack(data_buffer&): the return value and the buffer afterwards
pack(m, hp, b) ==
    IF m = NULL THEN [ret |-> FALSE, buf |-> b]
    ELSE LET msg_size == Unsigned(ByteSize(hp[m]))
             hdr == encode_header(resize(b, ToInt(Unsigned(HEADER_SIZE + ToInt(msg_size)))),
                                  msg_size)
         IN  IF Positive(msg_size)
             THEN LET s == SerializeToArray(hp[m], ToInt(msg_size))
                  IN  [ret |-> s.ret, buf |-> WriteAt(hdr, HEADER_SIZE, s.bytes)]
             ELSE [ret |-> TRUE, buf |-> hdr]

\* pack(uint8_t*, int) accepting the exact fit (<= for <)
pack_array_exact_fit(m, hp, b, buf_size) ==
    IF m = NULL THEN [ret |-> FALSE, buf |-> b]
    ELSE LET msg_size == ByteSize(hp[m])
         IN  IF HEADER_SIZE + msg_size <= buf_size
             THEN LET hdr == encode_header_array(memset0(b, buf_size), Unsigned(buf_size),
                                                 Unsigned(msg_size))
                  IN  IF msg_size > 0
                      THEN LET s == SerializeToArray(hp[m], msg_size)
                           IN  [ret |-> s.ret, buf |-> WriteAt(hdr, HEADER_SIZE, s.bytes)]
                      ELSE [ret |-> TRUE, buf |-> hdr]
             ELSE [ret |-> FALSE, buf |-> b]

\* pack(uint8_t*, int buf_size): the return value and the buffer afterwards
pack_array(m, hp, b, buf_size) ==
    IF m = NULL THEN [ret |-> FALSE, buf |-> b]
    ELSE LET msg_size == ByteSize(hp[m])
         IN  IF HEADER_SIZE + msg_size < buf_size
             THEN LET hdr == encode_header_array(memset0(b, buf_size), Unsigned(buf_size),
                                                 Unsigned(msg_size))
                  IN  IF msg_size > 0
                      THEN LET s == SerializeToArray(hp[m], msg_size)
                           IN  [ret |-> s.ret, buf |-> WriteAt(hdr, HEADER_SIZE, s.bytes)]
                      ELSE [ret |-> TRUE, buf |-> hdr]
             ELSE [ret |-> FALSE, buf |-> b]

\* the loop of decode_header: msg_size after reading bytes 1..i of b
RECURSIVE HeaderLoop(_, _)
HeaderLoop(b, i) ==
    IF i = 0 THEN Unsigned(0)
    ELSE Mul256Add(HeaderLoop(b, i - 1), b[i] % 256)

\* decode_header rejecting a buffer of exactly HEADER_SIZE bytes (<= for <)
decode_header_strict(b) ==
    IF Len(b) <= HEADER_SIZE THEN Unsigned(0) ELSE HeaderLoop(b, HEADER_SIZE)

\* decode_header(const data_buffer&)
decode_header(b) ==
    IF Len(b) < HEADER_SIZE THEN Unsigned(0) ELSE HeaderLoop(b, HEADER_SIZE)

\* decode_header(const uint8_t*, unsigned buf_size)
decode_header_array(b, buf_size) ==
    IF buf_size < HEADER_SIZE THEN Unsigned(0) ELSE HeaderLoop(b, HEADER_SIZE)

\* messages a parser run over memory outside the buffer may leave behind
StrayMsgs == {p \in Payloads : \A i \in 1..Len(p) : Encodable(p[i])}

\* what a call of ParseFromArray on a range outside the buffer can do:
\* abort, or return either value with some fields read from stray memory
StrayParse(m, hp, size) ==
    {[ret |-> FALSE, heap |-> hp, called |-> TRUE, size |-> size, crashed |-> TRUE]}
    \cup {[ret |-> r, heap |-> [hp EXCEPT ![m] = g], called |-> TRUE, size |-> size,
           crashed |-> FALSE] : r \in BOOLEAN, g \in StrayMsgs}

\* unpack(const data_buffer&) without the call of Clear()
unpack_no_clear(m, hp, b) ==
    IF m = NULL
    THEN {[ret |-> FALSE, heap |-> hp, called |-> FALSE, size |-> 0, crashed |-> TRUE]}
    ELSE LET body_length == SizeT(Len(b) - HEADER_SIZE)
         IN  IF Positive(body_length)
             THEN IF Len(b) >= HEADER_SIZE
                  THEN LET p == ParseFromArray(hp[m], SubSeq(b, HEADER_SIZE + 1, Len(b)))
                       IN  {[ret |-> p.ret, heap |-> [hp EXCEPT ![m] = p.msg],
                             called |-> TRUE, size |-> ToInt(body_length),
                             crashed |-> FALSE]}
                  ELSE StrayParse(m, hp, ToInt(body_length))
             ELSE {[ret |-> TRUE, heap |-> hp, called |-> FALSE, size |-> 0,
                    crashed |-> FALSE]}

\* unpack(const data_buffer&): the possible outcomes (return value, heap
\* afterwards, whether ParseFromArray was called and with which size,
\* whether the call aborted).  m_msg->Clear() on an empty handle aborts.
unpack(m, hp, b) ==
    IF m = NULL
    THEN {[ret |-> FALSE, heap |-> hp, called |-> FALSE, size |-> 0, crashed |-> TRUE]}
    ELSE LET cleared == [hp EXCEPT ![m] = Clear(hp[m])]
             body_length == SizeT(Len(b) - HEADER_SIZE)
         IN  IF Positive(body_length)
             THEN IF Len(b) >= HEADER_SIZE
                  THEN LET p == ParseFromArray(cleared[m],
                                               SubSeq(b, HEADER_SIZE + 1, Len(b)))
                       IN  {[ret |-> p.ret, heap |-> [cleared EXCEPT ![m] = p.msg],
                             called |-> TRUE, size |-> ToInt(body_length),
                             crashed |-> FALSE]}
                  ELSE StrayParse(m, cleared, ToInt(body_length))
             ELSE {[ret |-> TRUE, heap |-> cleared, called |-> FALSE, size |-> 0,
                    crashed |-> FALSE]}

\* unpack(const uint8_t*, unsigned) parsing from &buf[HEADER_SIZE - 1]
unpack_array_early(m, hp, b, buf_size) ==
    IF m = NULL
    THEN {[ret |-> FALSE, heap |-> hp, called |-> FALSE, size |-> 0, crashed |-> TRUE]}
    ELSE LET cleared == [hp EXCEPT ![m] = Clear(hp[m])]
             body_length == Unsigned(buf_size - HEADER_SIZE)
         IN  IF Positive(body_length)
             THEN IF buf_size >= HEADER_SIZE
                  THEN LET p == ParseFromArray(cleared[m],
                                               SubSeq(b, HEADER_SIZE, buf_size - 1))
                       IN  {[ret |-> p.ret, heap |-> [cleared EXCEPT ![m] = p.msg],
                             called |-> TRUE, size |-> ToInt(body_length),
                             crashed |-> FALSE]}
                  ELSE StrayParse(m, cleared, ToInt(body_length))
             ELSE {[ret |-> TRUE, heap |-> cleared, called |-> FALSE, size |-> 0,
                    crashed |-> FALSE]}

\* unpack(const uint8_t*, unsigned buf_size)
unpack_array(m, hp, b, buf_size) ==
    IF m = NULL
    THEN {[ret |-> FALSE, heap |-> hp, called |-> FALSE, size |-> 0, crashed |-> TRUE]}
    ELSE LET cleared == [hp EXCEPT ![m] = Clear(hp[m])]
             body_length == Unsigned(buf_size - HEADER_SIZE)
         IN  IF Positive(body_length)
             THEN IF buf_size >= HEADER_SIZE
                  THEN LET p == ParseFromArray(cleared[m],
                                               SubSeq(b, HEADER_SIZE + 1, buf_size))
                       IN  {[ret |-> p.ret, heap |-> [cleared EXCEPT ![m] = p.msg],
                             called |-> TRUE, size |-> ToInt(body_length),
                             crashed |-> FALSE]}
                  ELSE StrayParse(m, cleared, ToInt(body_length))
             ELSE {[ret |-> TRUE, heap |-> cleared, called |-> FALSE, size |-> 0,
                    crashed |-> FALSE]}

(* ------------------------------ the calls ------------------------------ *)

\* The record of a call: which one; its boolean result; its numeric result;
\* its buf_size argument (the vector's size for the vector forms of
\* decode_header and unpack); its handle argument (set_msg), its handle
\* result (get_msg) or the handle the codec referenced; for unpack, the
\* number of fields the message held before the call, whether
\* ParseFromArray was called, and the size it was given.
Call(op, ok, val, size, handle, before, called, psize) ==
    [op |-> op, ok |-> ok, val |-> val, size |-> size, handle |-> handle,
     before |-> before, called |-> called, psize |-> psize]

Plain(op, ok, val, size, handle) == Call(op, ok, val, size, handle, 0, FALSE, 0)

\* handles whose owner stores fields into the message (the sending side);
\* the other messages are filled by unpack only
Senders == {"h1"}

\* PackedMessage(MessagePointer msg = MessagePointer())
Init ==
    /\ m_msg \in Handles \cup {NULL}
    /\ heap = [h \in Handles |-> <<>>]
    /\ buf = <<>>
    /\ bufSrc = "caller"
    /\ last = Plain("ctor", TRUE, Unsigned(0), 0, m_msg)
    /\ crashed = FALSE

SetMsg(h) ==
    /\ ~crashed
    /\ m_msg' = set_msg(h)
    /\ last' = Plain("set_msg", TRUE, Unsigned(0), 0, h)
    /\ UNCHANGED <<heap, buf, bufSrc, crashed>>

GetMsg ==
    /\ ~crashed
    /\ last' = Plain("get_msg", TRUE, Unsigned(0), 0, get_msg(m_msg))
    /\ UNCHANGED <<m_msg, heap, buf, bufSrc, crashed>>

Pack ==
    /\ ~crashed
    /\ LET r == pack(m_msg, heap, buf)
       IN  /\ buf' = r.buf
           /\ bufSrc' = IF m_msg = NULL THEN bufSrc ELSE "pack"
           /\ last' = Plain("pack", r.ret, Unsigned(0), 0, m_msg)
    /\ UNCHANGED <<m_msg, heap, crashed>>

PackArray(buf_size) ==
    /\ ~crashed
    /\ LET r == pack_array(m_msg, heap, buf, buf_size)
       IN  /\ buf' = r.buf
           /\ bufSrc' = IF r.buf = buf THEN bufSrc ELSE "pack_array"
           /\ last' = Plain("pack_array", r.ret, Unsigned(0), buf_size, m_msg)
    /\ UNCHANGED <<m_msg, heap, crashed>>

DecodeHeader ==
    /\ ~crashed
    /\ last' = Plain("decode_header", TRUE, decode_header(buf), Len(buf), m_msg)
    /\ UNCHANGED <<m_msg, heap, buf, bufSrc, crashed>>

DecodeHeaderArray(buf_size) ==
    /\ ~crashed
    /\ last' = Plain("decode_header_array", TRUE, decode_header_array(buf, buf_size),
                     buf_size, m_msg)
    /\ UNCHANGED <<m_msg, heap, buf, bufSrc, crashed>>

\* number of fields of the referenced message (0 without a message)
FieldsBefore == IF m_msg = NULL THEN 0 ELSE Len(heap[m_msg])

Unpack ==
    /\ ~crashed
    /\ \E r \in unpack(m_msg, heap, buf) :
          /\ heap' = r.heap
          /\ crashed' = r.crashed
          /\ last' = Call("unpack", r.ret, Unsigned(0), Len(buf), m_msg,
                          FieldsBefore, r.called, r.size)
    /\ UNCHANGED <<m_msg, buf, bufSrc>>

UnpackArray(buf_size) ==
    /\ ~crashed
    /\ \E r \in unpack_array(m_msg, heap, buf, buf_size) :
          /\ heap' = r.heap
          /\ crashed' = r.crashed
          /\ last' = Call("unpack_array", r.ret, Unsigned(0), buf_size, m_msg,
                          FieldsBefore, r.called, r.size)
    /\ UNCHANGED <<m_msg, buf, bufSrc>>

\* the owner of a message stores fields into it
CallerWritesMsg(h, p) ==
    /\ ~crashed
    /\ heap' = [heap EXCEPT ![h] = p]
    /\ last' = Plain("caller", TRUE, Unsigned(0), 0, m_msg)
    /\ UNCHANGED <<m_msg, buf, bufSrc, crashed>>

\* the caller supplies a buffer of n bytes holding stale data
CallerFillsBuf(n) ==
    /\ ~crashed
    /\ buf' = [i \in 1..n |-> 255]
    /\ bufSrc' = "caller"
    /\ last' = Plain("caller", TRUE, Unsigned(0), 0, m_msg)
    /\ UNCHANGED <<m_msg, heap, crashed>>

\* The pointer forms are called on the caller's buffer with a buf_size that
\* does not exceed it: pack with the whole capacity, unpack with every
\* length, decode_header with none or all of it (SpecDecode passes every
\* length).
Next ==
    \/ \E h \in Handles \cup {NULL} : SetMsg(h)
    \/ GetMsg
    \/ Pack
    \/ \E n \in {Len(buf)} : PackArray(n)
    \/ DecodeHeader
    \/ \E n \in {0, Len(buf)} : DecodeHeaderArray(n)
    \/ Unpack
    \/ \E n \in 0..Len(buf) : UnpackArray(n)
    \/ \E h \in Senders, p \in Payloads : CallerWritesMsg(h, p)
    \/ \E n \in 0..MaxBuf : CallerFillsBuf(n)

Spec == Init /\ [][Next]_vars

(* ---------------- decode_header on arbitrary byte sequences ------------ *)

\* the bytes the sequences handed to decode_header are made of
DecodeBytes == {0, 1, 255}

InitDecode ==
    /\ m_msg = NULL
    /\ heap = [h \in Handles |-> <<>>]
    /\ buf \in SeqsUpTo(DecodeBytes, MaxDecodeLen)
    /\ bufSrc = "caller"
    /\ last = Plain("ctor", TRUE, Unsigned(0), 0, m_msg)
    /\ crashed = FALSE

NextDecode ==
    \/ DecodeHeader
    \/ \E n \in 0..Len(buf) : DecodeHeaderArray(n)

SpecDecode == InitDecode /\ [][NextDecode]_vars

(* ------------------------------ properties ----------------------------- *)

IsUnpack(c) == c.op \in {"unpack", "unpack_array"}

IsPack(c) == c.op \in {"pack", "pack_array"}

\* b is what a successful pack of the message P into an empty buffer yields
PackedFrom(P, b) ==
    LET r == pack("h1", [h \in Handles |-> P], <<>>)
    IN  r.ret /\ r.buf = b

\* the body bytes of an input of `size` bytes
BodyOf(b, size) == SubSeq(b, HEADER_SIZE + 1, size)

\* number of leading bytes of body that are fields on the wire
AcceptedLen(body) ==
    CHOOSE k \in 0..Len(body) :
        /\ \A i \in 1..k : DecodeOk(body[i])
        /\ k = Len(body) \/ ~DecodeOk(body[k + 1])

\* C1: round trip.  Whenever unpack is given the whole of a buffer that a
\* successful pack of a message P produces, it returns true and the
\* referenced message afterwards holds exactly the fields of P, whatever it
\* held before; a message of encoded length 0 packs to <<0,0,0,0>> with
\* success, and unpacking <<0,0,0,0>> succeeds and leaves the default
\* message.
RoundTrip ==
    [][ /\ \A P \in Payloads :
              ( /\ IsUnpack(last') /\ last'.handle # NULL
                /\ last'.size = Len(buf) /\ PackedFrom(P, buf) )
              => (~crashed' /\ last'.ok /\ heap'[m_msg] = P)
        /\ (last'.op = "pack" /\ m_msg # NULL /\ ByteSize(heap[m_msg]) = 0)
              => (last'.ok /\ buf' = <<0, 0, 0, 0>>)
        /\ ( /\ IsUnpack(last') /\ last'.handle # NULL
             /\ last'.size = Len(buf) /\ buf = <<0, 0, 0, 0>> )
              => (~crashed' /\ last'.ok /\ heap'[m_msg] = <<>>)
      ]_vars

\* unpack has restored, into a message that held other fields, the message
\* another handle had packed
RoundTripWitness ==
    /\ last.op = "unpack" /\ last.ok /\ bufSrc = "pack"
    /\ m_msg = "h2" /\ last.before = 1
    /\ Len(heap["h2"]) = 2 /\ heap["h2"] = heap["h1"]
    /\ PackedFrom(heap["h1"], buf)

\* C2: header exactness.  After a successful pack into the growable buffer
\* the buffer has exactly HEADER_SIZE + msg_size bytes and its header
\* decodes to the number of bytes that follow it.
HeaderExact ==
    (last.op = "pack" /\ last.ok)
        => /\ Len(buf) = HEADER_SIZE + ByteSize(heap[m_msg])
           /\ decode_header(buf) = Unsigned(Len(buf) - HEADER_SIZE)

HeaderExactWitness ==
    /\ last.op = "pack" /\ last.ok
    /\ ByteSize(heap[m_msg]) = 2 /\ Len(buf) = HEADER_SIZE + 2

\* C3: capacity rejection.  pack into a fixed buffer whose buf_size is at
\* most HEADER_SIZE + msg_size returns false and writes no byte.
CapacityRejection ==
    [][ ( /\ last'.op = "pack_array" /\ m_msg # NULL
          /\ last'.size <= HEADER_SIZE + ByteSize(heap[m_msg]) )
        => (~last'.ok /\ buf' = buf) ]_vars

\* the exact-fit case on a stale buffer
CapacityRejectionWitness ==
    /\ last.op = "pack_array" /\ ~last.ok /\ m_msg # NULL
    /\ ByteSize(heap[m_msg]) = 1
    /\ last.size = HEADER_SIZE + ByteSize(heap[m_msg])
    /\ Len(buf) = last.size /\ \A i \in 1..Len(buf) : buf[i] = 255

\* C4: truncated input.  unpack of an input shorter than HEADER_SIZE does
\* not call the parser, returns true and leaves the default message.
TruncatedUnpack ==
    (IsUnpack(last) /\ last.handle # NULL /\ last.size < HEADER_SIZE)
        => /\ ~crashed
           /\ ~last.called
           /\ last.ok
           /\ heap[m_msg] = <<>>

\* C5: destructive unpack.  When the parser rejects the body, unpack
\* returns false and the message holds only what the parser read from
\* the body before the rejected byte: none of the fields it held before.
DestructiveUnpack ==
    ( /\ IsUnpack(last) /\ last.handle # NULL /\ last.size > HEADER_SIZE
      /\ \E i \in 1..(last.size - HEADER_SIZE) : ~DecodeOk(BodyOf(buf, last.size)[i]) )
        => LET body == BodyOf(buf, last.size)
           IN  /\ ~last.ok
               /\ heap[m_msg] = [i \in 1..AcceptedLen(body) |-> DecodeField(body[i])]

\* a failed unpack into a message that held fields before the call
DestructiveUnpackWitness ==
    /\ last.op = "unpack" /\ ~last.ok /\ m_msg # NULL /\ ~crashed
    /\ last.before = 2 /\ last.size > HEADER_SIZE /\ last.called
    /\ heap[m_msg] = <<>>

\* C6: zero fill.  After a successful pack into a fixed buffer of buf_size
\* C every byte from HEADER_SIZE + msg_size up to C is zero.
ZeroFill ==
    (last.op = "pack_array" /\ last.ok)
        => \A i \in (HEADER_SIZE + ByteSize(heap[m_msg]) + 1)..last.size : buf[i] = 0

\* slack bytes behind a one-byte body were cleared
ZeroFillWitness ==
    /\ last.op = "pack_array" /\ last.ok /\ bufSrc = "pack_array"
    /\ last.size = Len(buf) /\ ByteSize(heap[m_msg]) = 1
    /\ last.size > HEADER_SIZE + ByteSize(heap[m_msg]) + 1

\* the big-endian value of the first four bytes of s, 0 for a shorter s
BigEndian(s) ==
    IF Len(s) < HEADER_SIZE THEN <<0, 0>>
    ELSE <<s[3] * 256 + s[4], s[1] * 256 + s[2]>>

\* C7: decode_header.  Both forms return 0 for fewer than HEADER_SIZE
\* bytes and otherwise b0*2^24 + b1*2^16 + b2*2^8 + b3 (as 16-bit limbs
\* <<b2*2^8 + b3, b0*2^8 + b1>>, and as a number where it fits), whatever
\* follows the header; the two forms agree on the same input.
DecodeResult ==
    /\ last.op = "decode_header"
          => /\ last.val = BigEndian(buf)
             /\ last.val = decode_header_array(buf, Len(buf))
    /\ last.op = "decode_header_array"
          => /\ last.val = BigEndian(SubSeq(buf, 1, last.size))
             /\ last.val = decode_header(SubSeq(buf, 1, last.size))
    /\ (last.op \in {"decode_header", "decode_header_array"}
          /\ last.size >= HEADER_SIZE /\ buf[1] < 128)
          => ToInt(last.val) = buf[1] * 2 ^ 24 + buf[2] * 2 ^ 16 + buf[3] * 2 ^ 8 + buf[4]

\* {0x00,0x00,0x01,0x00} followed by another byte decodes to 256
DecodeResultWitness ==
    /\ last.op = "decode_header" /\ buf = <<0, 0, 1, 0, 255>>
    /\ ToInt(last.val) = 256

\* C8: no payload.  Without a referenced message both pack forms return
\* false and leave the buffer as it was.
NoPayload ==
    [][ (IsPack(last') /\ m_msg = NULL) => (~last'.ok /\ buf' = buf) ]_vars

NoPayloadWitness ==
    /\ last.op = "pack" /\ ~last.ok /\ m_msg = NULL
    /\ Len(buf) = MaxBuf /\ buf[1] = 255

\* C9: the fixed path agrees with the growable path.  With
\* HEADER_SIZE + msg_size < buf_size, pack into the fixed buffer returns
\* what pack into the growable buffer returns, and on success the first
\* HEADER_SIZE + msg_size bytes are the growable buffer's bytes.
FixedAgrees ==
    [][ ( /\ last'.op = "pack_array" /\ m_msg # NULL
          /\ HEADER_SIZE + ByteSize(heap[m_msg]) < last'.size )
        => LET g == pack(m_msg, heap, buf)
           IN  /\ last'.ok = g.ret
               /\ last'.ok => SubSeq(buf', 1, HEADER_SIZE + ByteSize(heap[m_msg])) = g.buf
      ]_vars

FixedAgreesWitness ==
    /\ last.op = "pack_array" /\ last.ok /\ m_msg # NULL
    /\ ByteSize(heap[m_msg]) = 2
    /\ last.size > HEADER_SIZE + ByteSize(heap[m_msg])

\* the effect of one call on the handle and on the messages: set_msg stores
\* its argument; no other call changes m_msg; get_msg returns m_msg; pack,
\* decode_header, get_msg and set_msg leave every message as it was; unpack
\* leaves the buffer and every message but the referenced one as they were
Frame ==
    ~crashed' =>
        /\ last'.op = "set_msg" => m_msg' = last'.handle
        /\ last'.op # "set_msg" => m_msg' = m_msg
        /\ last'.op = "get_msg" => last'.handle = m_msg
        /\ ~IsUnpack(last') /\ last'.op # "caller" => heap' = heap
        /\ IsUnpack(last') =>
              /\ buf' = buf
              /\ \A h \in Handles \ {m_msg} : heap'[h] = heap[h]

\* pack into a fixed buffer that has the capacity writes bytes that depend
\* on the message and on buf_size only
PackArrayRepeatable ==
    ( /\ last'.op = "pack_array" /\ m_msg # NULL
      /\ HEADER_SIZE + ByteSize(heap[m_msg]) < last'.size )
        => SubSeq(buf', 1, last'.size)
             = SubSeq(pack_array(m_msg, heap, [i \in 1..Len(buf) |-> 0], last'.size).buf,
                      1, last'.size)

\* C10 as stated: Frame, and every pack of a referenced message leaves the
\* buffer that a pack of the same message into an empty buffer leaves.
Stateless ==
    [][ /\ Frame
        /\ PackArrayRepeatable
        /\ (last'.op = "pack" /\ m_msg # NULL)
              => buf' = pack(m_msg, heap, <<>>).buf ]_vars

\* C10 amended: Frame, and every successful pack of a referenced message
\* leaves the buffer that a pack of the same message into an empty buffer
\* leaves (a pack whose serializer fails keeps the bytes the serializer did
\* not write).
StatelessOnSuccess ==
    [][ /\ Frame
        /\ PackArrayRepeatable
        /\ (last'.op = "pack" /\ m_msg # NULL /\ last'.ok)
              => buf' = pack(m_msg, heap, <<>>).buf ]_vars

\* a successful pack of the referenced message, the other message having
\* been filled by an unpack in between
StatelessWitness ==
    /\ last.op = "pack" /\ last.ok /\ m_msg = "h1"
    /\ Len(heap["h2"]) = 1 /\ Len(heap["h1"]) = 2
    /\ buf = pack("h1", heap, <<>>).buf

====
